---------------------------- MODULE Spec2Model ----------------------------
(***************************************************************************)
(* Model of the guest-count extraction engine of src/app/scraper.py, of    *)
(* its two callers (api_log of src/app/main.py, main of                    *)
(* src/scripts/log_guest_count.py) and of the table they write to.         *)
(*                                                                         *)
(* Text is modelled character by character: a Python str is a sequence of  *)
(* one-character tokens.  Characters that are awkward inside a TLA+ string *)
(* have named tokens: DQ is the double quote, SQ the apostrophe, LF the    *)
(* line feed, TAB the tabulator, NBSP U+00A0, a_uml and A_UML the letter   *)
(* a-umlaut in lower and upper case.                                       *)
(***************************************************************************)
EXTENDS Integers, Sequences, FiniteSets, TLC

VARIABLES
    pc,          \* position of the invocation of fetch_guest_count_async
    httpxAvail,  \* importlib can import httpx
    wsAvail,     \* importlib can import websockets
    clientGiven, \* the caller passed its own client
    closeClient, \* local close_client
    clientOpen,  \* the HTTP client in use has not been closed
    page,        \* what the peer serves (description of the document)
    getResult,   \* how the GET ended
    parsed,      \* what _parse_guest_count(html) did
    uid,         \* local uid
    dumpOk,      \* whether the debug dump could be written
    wsOpen,      \* the feed connection is open
    raw,         \* the frame ws.recv() delivered to _recv_once
    result,      \* local result of _fetch_count_via_websocket
    hits,        \* per received frame: what a correct scan finds in it
    pending,     \* the value or exception travelling to the caller
    outcome,     \* what the caller of fetch_guest_count_async got
    cnt,         \* how often each operation ran in this invocation
    nPc,         \* position of the normalizer harness
    nDoc,        \* the document handed to _extract_visible_text
    nOnce,       \* _extract_visible_text(nDoc)
    nTwice,      \* _extract_visible_text(nOnce)
    stamp,       \* timestamp of the GuestCount the engine built (0: none)
    timeout,     \* seconds the client in use waits for a response (0: unbounded)
    dumpFile,    \* content of data/last_response.html
    caller,      \* who invoked the engine: api_log or the script's main
    cPc,         \* position of that caller
    session,     \* rows added to the caller's session, not yet committed
    store,       \* rows of the table guest_logs
    reply,       \* what the caller answered: HTTP status or exit status
    inv          \* locals of each of the concurrent invocations

\* The locals of the one invocation; the dump file is shared by all.
localVars == <<pc, httpxAvail, wsAvail, clientGiven, closeClient, clientOpen,
               page, getResult, parsed, uid, dumpOk, wsOpen, raw,
               result, hits, pending, outcome, cnt, stamp, timeout>>
engineVars == <<localVars, dumpFile>>
normVars == <<nPc, nDoc, nOnce, nTwice>>
callerVars == <<caller, cPc, session, store, reply>>
restVars == <<normVars, callerVars, inv>>
vars == <<engineVars, restVars>>

None == [k |-> "none"]

-----------------------------------------------------------------------------
(* Character classes and small string helpers (Python str / re semantics). *)

Digits == <<"0","1","2","3","4","5","6","7","8","9">>

\* \d of the re module, restricted to the ASCII digits of the alphabet.
IsDigit(c) == c \in {"0","1","2","3","4","5","6","7","8","9"}

\* \s of the re module and str.isspace: U+00A0 counts as whitespace.
IsSpace(c) == c \in {" ", "LF", "TAB", "NBSP"}

\* Case folding done by re.IGNORECASE, for the letters of the alphabet.
Lower(c) ==
    CASE c = "A" -> "a" [] c = "B" -> "b" [] c = "C" -> "c" [] c = "D" -> "d"
      [] c = "E" -> "e" [] c = "F" -> "f" [] c = "G" -> "g" [] c = "H" -> "h"
      [] c = "I" -> "i" [] c = "J" -> "j" [] c = "K" -> "k" [] c = "L" -> "l"
      [] c = "M" -> "m" [] c = "N" -> "n" [] c = "O" -> "o" [] c = "P" -> "p"
      [] c = "Q" -> "q" [] c = "R" -> "r" [] c = "S" -> "s" [] c = "T" -> "t"
      [] c = "U" -> "u" [] c = "V" -> "v" [] c = "W" -> "w" [] c = "X" -> "x"
      [] c = "Y" -> "y" [] c = "Z" -> "z" [] c = "A_UML" -> "a_uml"
      [] OTHER -> c

\* lit occurs in s at index i (1-based), compared exactly.
MatchLit(s, i, lit) ==
    /\ i >= 1
    /\ i + Len(lit) - 1 <= Len(s)
    /\ \A k \in 1..Len(lit) : s[i + k - 1] = lit[k]

\* lit (given in lower case) occurs in s at index i, ignoring case.
MatchLitI(s, i, lit) ==
    /\ i >= 1
    /\ i + Len(lit) - 1 <= Len(s)
    /\ \A k \in 1..Len(lit) : Lower(s[i + k - 1]) = lit[k]

RECURSIVE SkipSpaces(_, _)
\* First index >= i of s that holds no whitespace (Len(s)+1 if none).
SkipSpaces(s, i) ==
    IF i <= Len(s) /\ IsSpace(s[i]) THEN SkipSpaces(s, i + 1) ELSE i

RECURSIVE SkipDigits(_, _)
\* First index >= i of s that holds no digit.
SkipDigits(s, i) ==
    IF i <= Len(s) /\ IsDigit(s[i]) THEN SkipDigits(s, i + 1) ELSE i

\* The least element of a non-empty set of integers.
Least(S) == CHOOSE x \in S : \A y \in S : x <= y

\* First index >= i of s that holds a digit (Len(s)+1 if none).
SkipNonDigits(s, i) ==
    LET at == {j \in i..Len(s) : IsDigit(s[j])}
    IN  IF at = {} THEN Len(s) + 1 ELSE Least(at)

\* First index >= i of s that holds c, 0 if there is none.
FindChar(s, i, c) ==
    LET at == {j \in i..Len(s) : s[j] = c}
    IN  IF at = {} THEN 0 ELSE Least(at)

\* str.find: first index >= i where sub occurs in s, 0 if it does not.
FindSub(s, i, sub) ==
    LET at == {j \in i..Len(s) : MatchLit(s, j, sub)}
    IN  IF at = {} THEN 0 ELSE Least(at)

\* First index >= i of s whose character is in the set cs (Len(s)+1 if
\* none): the end of a run of characters that a substitution copies.
NextOf(s, i, cs) ==
    LET at == {j \in i..Len(s) : s[j] \in cs}
    IN  IF at = {} THEN Len(s) + 1 ELSE Least(at)

DigitVal(c) == CHOOSE d \in 0..9 : Digits[d + 1] = c

RECURSIVE DigitsToInt(_)
\* int(<digit run>)
DigitsToInt(ds) ==
    IF ds = <<>> THEN 0
    ELSE 10 * DigitsToInt(SubSeq(ds, 1, Len(ds) - 1)) + DigitVal(ds[Len(ds)])

RECURSIVE IntToStr(_)
\* str(n) for n >= 0
IntToStr(n) ==
    IF n < 10 THEN <<Digits[n + 1]>>
    ELSE IntToStr(n \div 10) \o <<Digits[(n % 10) + 1]>>

-----------------------------------------------------------------------------
(* _extract_visible_text: the Text Normalizer.                             *)

RECURSIVE SubTags(_, _)
\* re.sub(r"<[^>]+>", " ", html), scanning from index i.
SubTags(s, i) ==
    IF i > Len(s) THEN <<>>
    ELSE IF s[i] = "<"
         THEN LET j == FindChar(s, i + 1, ">")
              IN  IF j >= i + 2
                  THEN <<" ">> \o SubTags(s, j + 1)
                  ELSE <<s[i]>> \o SubTags(s, i + 1)
         ELSE LET n == NextOf(s, i, {"<"})
              IN  SubSeq(s, i, n - 1) \o SubTags(s, n)

RECURSIVE SubSpaces(_, _)
\* re.sub(r"\s+", " ", text), scanning from index i.
SubSpaces(s, i) ==
    IF i > Len(s) THEN <<>>
    ELSE IF IsSpace(s[i])
         THEN <<" ">> \o SubSpaces(s, SkipSpaces(s, i))
         ELSE LET n == NextOf(s, i, {" ", "LF", "TAB", "NBSP"})
              IN  SubSeq(s, i, n - 1) \o SubSpaces(s, n)

\* The characters that end the name of a character reference in
\* html.unescape: [^\t\n\f <&#;]
IsRefNameChar(c) == c \notin {"TAB", "LF", " ", "<", "&", "#", ";"}

RECURSIVE SkipRefName(_, _, _)
\* End of the run of at most left name characters starting at i.
SkipRefName(s, i, left) ==
    IF left > 0 /\ i <= Len(s) /\ IsRefNameChar(s[i])
    THEN SkipRefName(s, i + 1, left - 1)
    ELSE i

\* html.entities.html5, the entries for the references of the alphabet.
\* A name without its semicolon is an entry too (the legacy references).
Html5(name) ==
    CASE name = <<"l","t",";">> -> <<"<">>
      [] name = <<"l","t">> -> <<"<">>
      [] name = <<"g","t",";">> -> <<">">>
      [] name = <<"g","t">> -> <<">">>
      [] name = <<"a","m","p",";">> -> <<"&">>
      [] name = <<"a","m","p">> -> <<"&">>
      [] name = <<"n","b","s","p",";">> -> <<"NBSP">>
      [] name = <<"n","b","s","p">> -> <<"NBSP">>
      [] OTHER -> <<>>

RECURSIVE LongestRef(_, _)
\* html._replace_charref for a named reference nm that is no entry itself:
\* the longest proper prefix (of 2 characters or more) that is an entry,
\* followed by the rest; "&" and nm unchanged if there is none.
LongestRef(nm, x) ==
    IF x < 2 THEN <<"&">> \o nm
    ELSE IF Html5(SubSeq(nm, 1, x)) # <<>>
         THEN Html5(SubSeq(nm, 1, x)) \o SubSeq(nm, x + 1, Len(nm))
         ELSE LongestRef(nm, x - 1)

\* chr(code) for the decimal references of the alphabet; other codes
\* stand for some character outside the alphabet.
CodeChar(ds) ==
    CASE DigitsToInt(ds) = 32 -> <<" ">>
      [] DigitsToInt(ds) = 38 -> <<"&">>
      [] DigitsToInt(ds) = 60 -> <<"<">>
      [] DigitsToInt(ds) = 62 -> <<">">>
      [] DigitsToInt(ds) = 160 -> <<"NBSP">>
      [] OTHER -> <<"OTHERCHAR">>

RECURSIVE Unescape(_, _)
\* html.unescape(text), scanning from index i.  Decimal and named
\* references are modelled; the replaced text is not scanned again.
Unescape(s, i) ==
    IF i > Len(s) THEN <<>>
    ELSE IF s[i] # "&"
         THEN LET n == NextOf(s, i, {"&"})
              IN  SubSeq(s, i, n - 1) \o Unescape(s, n)
    ELSE IF i + 1 <= Len(s) /\ s[i + 1] = "#"
         THEN LET d == SkipDigits(s, i + 2)
                  e == IF d <= Len(s) /\ s[d] = ";" THEN d + 1 ELSE d
              IN  IF d > i + 2
                  THEN CodeChar(SubSeq(s, i + 2, d - 1)) \o Unescape(s, e)
                  ELSE <<s[i]>> \o Unescape(s, i + 1)
         ELSE LET d == SkipRefName(s, i + 1, 32)
                  e == IF d <= Len(s) /\ s[d] = ";" THEN d + 1 ELSE d
                  nm == SubSeq(s, i + 1, e - 1)
              IN  IF d = i + 1
                  THEN <<s[i]>> \o Unescape(s, i + 1)
                  ELSE IF Html5(nm) # <<>>
                       THEN Html5(nm) \o Unescape(s, e)
                       ELSE LongestRef(nm, Len(nm) - 1) \o Unescape(s, e)

\* str.strip()
Strip(s) ==
    LET keep == {i \in 1..Len(s) : ~IsSpace(s[i])}
    IN  IF keep = {} THEN <<>>
        ELSE SubSeq(s, SkipSpaces(s, 1),
                    CHOOSE i \in keep : \A j \in keep : j <= i)

_extract_visible_text(doc) ==
    LET text1 == SubTags(doc, 1)
        text2 == SubSpaces(text1, 1)
    IN  Strip(Unescape(text2, 1))

-----------------------------------------------------------------------------
(* The four compiled patterns and their searches.                          *)

Some(x) == <<x>>
Nothing == <<>>

LitTd == <<"<","t","d">>
LitIdEq == <<"i","d","=">>
LitSsdLower == <<"s","s","d","-">>
LitSsd == <<"S","S","D","-">>
LitVisitor == <<"_","v","i","s","i","t","o","r","n","u","m","b","e","r">>
LitAnzahl == <<"a","n","z","a","h","l">>
LitSte == <<"s","t","e">>
LitKapazit == <<"k","a","p","a","z","i","t">>
LitVon == <<"v","o","n">>
LitMax == <<"m","a","x">>

IsQuote(c) == c \in {"DQ", "SQ"}

\* id=["']SSD-(?:\d+)_visitornumber["'] at index p of s, ignoring case:
\* the index after the closing quote, 0 if it does not match.
IdAttrAt(s, p) ==
    LET d == SkipDigits(s, p + 8)
    IN  IF /\ MatchLitI(s, p, LitIdEq)
           /\ p + 3 <= Len(s) /\ IsQuote(s[p + 3])
           /\ MatchLitI(s, p + 4, LitSsdLower)
           /\ d > p + 8
           /\ MatchLitI(s, d, LitVisitor)
           /\ d + 14 <= Len(s) /\ IsQuote(s[d + 14])
        THEN d + 15
        ELSE 0

\* COUNT_ID_PATTERN matched at index i of s: group(1), or Nothing.
\* <td[^>]* id-attribute [^>]*> \s* (\d+) \s* <
CountIdAt(s, i) ==
    IF ~MatchLitI(s, i, LitTd) THEN Nothing
    ELSE LET g == FindChar(s, i + 3, ">")
             k == SkipSpaces(s, g + 1)
             d == SkipDigits(s, k)
             m == SkipSpaces(s, d)
         IN  IF /\ g > 0
                /\ \E p \in (i + 3)..(g - 1) : IdAttrAt(s, p) # 0
                /\ d > k
                /\ m <= Len(s) /\ s[m] = "<"
             THEN Some(SubSeq(s, k, d - 1))
             ELSE Nothing

\* COUNT_ID_PATTERN.search(html): group(1) of the leftmost match.
CountIdSearch(s, i) ==
    LET at == {j \in i..Len(s) : CountIdAt(s, j) # Nothing}
    IN  IF at = {} THEN Nothing ELSE CountIdAt(s, Least(at))

\* COUNT_PATTERN matched at index i of s: [digits, stop], stop the index
\* after the match, or Nothing.  Anzahl\s+G[äa]ste[^0-9]*(\d+), any case.
CountTextAt(s, i) ==
    IF ~MatchLitI(s, i, LitAnzahl) THEN Nothing
    ELSE LET w == SkipSpaces(s, i + 6)
             d1 == SkipNonDigits(s, w + 5)
             d2 == SkipDigits(s, d1)
         IN  IF /\ w > i + 6
                /\ MatchLitI(s, w, <<"g">>)
                /\ w + 1 <= Len(s) /\ Lower(s[w + 1]) \in {"a", "a_uml"}
                /\ MatchLitI(s, w + 2, LitSte)
                /\ d1 <= Len(s)
             THEN Some([digits |-> SubSeq(s, d1, d2 - 1), stop |-> d2])
             ELSE Nothing

\* COUNT_PATTERN.search(text)
CountTextSearch(s, i) ==
    LET at == {j \in i..Len(s) : CountTextAt(s, j) # Nothing}
    IN  IF at = {} THEN Nothing ELSE CountTextAt(s, Least(at))

\* (?:Kapazit[aä]t|von)\s*(\d+) at index k of s: group(1), or Nothing.
CapKeywordAt(s, k) ==
    LET after == IF /\ MatchLitI(s, k, LitKapazit)
                    /\ k + 8 <= Len(s)
                    /\ Lower(s[k + 7]) \in {"a", "a_uml"}
                    /\ Lower(s[k + 8]) = "t"
                 THEN k + 9
                 ELSE IF MatchLitI(s, k, LitVon) THEN k + 3 ELSE 0
         d1 == SkipSpaces(s, after)
         d2 == SkipDigits(s, d1)
    IN  IF after > 0 /\ d2 > d1 THEN Some(SubSeq(s, d1, d2 - 1)) ELSE Nothing

\* CAPACITY_PATTERN matched at index i of s, with its optional
\* (?:max\.?\s*) prefix: group(1), or Nothing.
CapacityAt(s, i) ==
    LET k0 == i + 3
        k1 == IF k0 <= Len(s) /\ s[k0] = "." THEN k0 + 1 ELSE k0
        withMax == IF MatchLitI(s, i, LitMax)
                   THEN CapKeywordAt(s, SkipSpaces(s, k1))
                   ELSE Nothing
    IN  IF withMax # Nothing THEN withMax ELSE CapKeywordAt(s, i)

\* CAPACITY_PATTERN.search(text_slice)
CapacitySearch(s, i) ==
    LET at == {j \in i..Len(s) : CapacityAt(s, j) # Nothing}
    IN  IF at = {} THEN Nothing ELSE CapacityAt(s, Least(at))

\* UID_IN_MARKUP_PATTERN matched at index i of s: group(1), or Nothing.
\* (SSD-\d+)_visitornumber, case-sensitive.
UidAt(s, i) ==
    LET d == SkipDigits(s, i + 4)
    IN  IF /\ MatchLit(s, i, LitSsd)
           /\ d > i + 4
           /\ MatchLit(s, d, LitVisitor)
        THEN Some(SubSeq(s, i, d - 1))
        ELSE Nothing

\* UID_IN_MARKUP_PATTERN.search(html)
UidSearch(s, i) ==
    LET at == {j \in i..Len(s) : UidAt(s, j) # Nothing}
    IN  IF at = {} THEN Nothing ELSE UidAt(s, Least(at))

-----------------------------------------------------------------------------
(* _parse_guest_count and _extract_uid_from_html.                          *)

\* Width of the text window searched for the capacity.
WindowLen == 100

\* s[a : a + WindowLen] for the 1-based index a.
Window(s, a) ==
    SubSeq(s, a, IF a + WindowLen - 1 < Len(s) THEN a + WindowLen - 1 ELSE Len(s))

\* The capacity found in text_slice: Some(int) or Nothing (None).
CapacityOf(textSlice) ==
    LET m == CapacitySearch(textSlice, 1)
    IN  IF m # Nothing THEN Some(DigitsToInt(m[1])) ELSE Nothing

\* Strategy A: the slice of text searched after COUNT_ID_PATTERN matched.
SliceAfterCell(text, count) ==
    LET startIdx == FindSub(text, 1, IntToStr(count))
    IN  IF startIdx # 0 THEN Window(text, startIdx) ELSE text

\* Fault variant of _parse_guest_count: the free-text strategy is tried
\* before the cell.
ParseGuestCount_TextFirst(doc) ==
    LET text == _extract_visible_text(doc)
        htmlMatch == CountIdSearch(doc, 1)
        textMatch == CountTextSearch(text, 1)
    IN  IF textMatch # Nothing
        THEN [k |-> "ok", count |-> DigitsToInt(textMatch[1].digits),
              capacity |-> CapacityOf(Window(text, textMatch[1].stop))]
        ELSE IF htmlMatch = Nothing
             THEN [k |-> "err", count |-> 0, capacity |-> Nothing]
             ELSE LET count == DigitsToInt(htmlMatch[1])
                  IN  [k |-> "ok", count |-> count,
                       capacity |-> CapacityOf(SliceAfterCell(text, count))]

\* _parse_guest_count(html): [k |-> "ok", count, capacity] for the
\* GuestCount returned, [k |-> "err", ...] for the GuestCountError raised.
_parse_guest_count(doc) ==
    LET text == _extract_visible_text(doc)
        htmlMatch == CountIdSearch(doc, 1)
        textMatch == CountTextSearch(text, 1)
    IN  IF htmlMatch # Nothing
        THEN LET count == DigitsToInt(htmlMatch[1])
             IN  [k |-> "ok", count |-> count,
                  capacity |-> CapacityOf(SliceAfterCell(text, count))]
        ELSE IF textMatch = Nothing
             THEN [k |-> "err", count |-> 0, capacity |-> Nothing]
             ELSE [k |-> "ok", count |-> DigitsToInt(textMatch[1].digits),
                   capacity |-> CapacityOf(Window(text, textMatch[1].stop))]

\* _extract_uid_from_html(html): Some(uid) or Nothing (None).
_extract_uid_from_html(doc) == UidSearch(doc, 1)

-----------------------------------------------------------------------------
(* The documents the source page can serve.  A page is described by what   *)
(* its author put into it; Render writes the description out as HTML.      *)

\* The run of characters that pushes a capacity phrase out of the window.
Filler == [i \in 1..WindowLen |-> "x"]

Pages ==
    {p \in [lead : {"none", "season"},
            cell : {"none", "empty", "plain", "loose"},
            cellVal : {0, 68},
            phrase : {"none", "umlaut73", "upper58", "zero"},
            far : BOOLEAN,
            cap : {"none", "von250", "kap120", "max9"}] :
        /\ p.cell \in {"none", "empty"} => p.cellVal = 0
        /\ p.cap = "none" => ~p.far
        /\ p.cell = "empty" => p.cap = "none"}

LeadSrc(p) ==
    IF p.lead = "season"
    THEN <<"<","p",">","S","a","i","s","o","n"," ","1","6","8","0"," ",
           "v","o","n"," ","5","<","/","p",">">>
    ELSE <<>>

\* The digit run written into the cell ("loose" cells pad it with a zero).
CellDigits(p) ==
    IF p.cellVal = 0
    THEN (IF p.cell = "loose" THEN <<"0","0">> ELSE <<"0">>)
    ELSE (IF p.cell = "loose" THEN <<"0","6","8">> ELSE <<"6","8">>)

CellSrc(p) ==
    CASE p.cell = "none" -> <<>>
      [] p.cell = "empty" ->
            <<"<","t","d"," ","i","d","=","DQ","S","S","D","-","4","_","v",
              "i","s","i","t","o","r","n","u","m","b","e","r","DQ",">",
              "<","/","t","d",">">>
      [] p.cell = "plain" ->
            <<"<","t","d"," ","i","d","=","DQ","S","S","D","-","4","_","v",
              "i","s","i","t","o","r","n","u","m","b","e","r","DQ",">">>
            \o CellDigits(p) \o <<"<","/","t","d",">">>
      [] p.cell = "loose" ->
            <<"<","T","D"," ","c","l","a","s","s","=","SQ","c","SQ"," ","I",
              "D","=","SQ","S","S","D","-","1","2","_","v","i","s","i","t",
              "o","r","n","u","m","b","e","r","SQ"," ","x","=","DQ","1","DQ",
              ">","LF"," ">>
            \o CellDigits(p) \o <<" ","<","/","T","D",">">>

PhraseSrc(p) ==
    CASE p.phrase = "none" -> <<>>
      [] p.phrase = "umlaut73" ->
            <<"A","n","z","a","h","l"," ","G","a_uml","s","t","e"," ","7","3">>
      [] p.phrase = "upper58" ->
            <<"A","N","Z","A","H","L"," "," ","G","A","S","T","E"," ","a","k",
              "t","u","e","l","l",":"," ","5","8">>
      [] p.phrase = "zero" ->
            <<"A","n","z","a","h","l"," ","G","a","s","t","e"," ","0">>

CapSrc(p) ==
    CASE p.cap = "none" -> <<>>
      [] p.cap = "von250" -> <<" ","v","o","n"," ","2","5","0">>
      [] p.cap = "kap120" ->
            <<" ","<","b",">","K","a","p","a","z","i","t","a_uml","t","<","/",
              "b",">"," ","1","2","0">>
      [] p.cap = "max9" ->
            <<" ","m","a","x","."," ","K","A","P","A","Z","I","T","A","T"," ",
              "9">>

Render(p) ==
    LeadSrc(p)
    \o <<"<","t","a","b","l","e",">","<","t","r",">">>
    \o CellSrc(p)
    \o <<"<","/","t","r",">","<","/","t","a","b","l","e",">","<","d","i","v",">">>
    \o PhraseSrc(p)
    \o (IF p.far THEN <<" ">> \o Filler ELSE <<>>)
    \o CapSrc(p)
    \o <<"<","/","d","i","v",">">>

\* What the author of the page wrote, read off the description.
CellHasCount(p) == p.cell \in {"plain", "loose"}
PhraseHasCount(p) == p.phrase # "none"
PhraseVal(p) ==
    CASE p.phrase = "umlaut73" -> 73 [] p.phrase = "upper58" -> 58 [] OTHER -> 0
CapVal(p) ==
    CASE p.cap = "von250" -> 250 [] p.cap = "kap120" -> 120 [] OTHER -> 9
\* The count a reader of the page is shown (cell before phrase).
PageCount(p) == IF CellHasCount(p) THEN p.cellVal ELSE PhraseVal(p)
\* The capacity phrase that follows that count within the window.
PageCapacity(p) ==
    IF p.cap = "none" \/ p.far THEN Nothing ELSE Some(CapVal(p))
\* The facility identifier the markup carries.
PageUid(p) ==
    CASE p.cell = "none" -> Nothing
      [] p.cell = "loose" -> Some(<<"S","S","D","-","1","2">>)
      [] OTHER -> Some(<<"S","S","D","-","4">>)

-----------------------------------------------------------------------------
(* The frames the live feed can deliver.                                   *)

\* Most records a frame of the model carries.
MaxRecords == 2

FillTags == {"s12", "i0", "s7_9", "sNeg3", "sBad", "missing"}
CapTags == {"s120", "sBad", "missing"}

Items ==
    {it \in [k : {"dict", "other"}, uid : {"target", "other"},
             fill : FillTags, cap : CapTags] :
        /\ it.k = "other" => it.uid = "other"
        /\ it.uid = "other" => it.fill = "s12" /\ it.cap = "s120"
        /\ it.cap # "s120" => it.fill = "s12"}

FrameLists == UNION {[1..n -> Items] : n \in 0..MaxRecords}

\* A frame: a JSON array of records, a JSON object, or text that is no JSON.
Frames ==
    {[k |-> "list", items |-> l] : l \in FrameLists}
    \cup {[k |-> "object", items |-> <<>>], [k |-> "badjson", items |-> <<>>]}

\* The Python value behind a field of a record.
PyStr(chars) == [ty |-> "str", s |-> chars, n |-> 0]
PyInt(n) == [ty |-> "int", s |-> <<>>, n |-> n]
PyNone == [ty |-> "none", s |-> <<>>, n |-> 0]

FillValue(tag) ==
    CASE tag = "s12" -> PyStr(<<"1","2">>)
      [] tag = "i0" -> PyInt(0)
      [] tag = "s7_9" -> PyStr(<<"7",".","9">>)
      [] tag = "sNeg3" -> PyStr(<<"-","3">>)
      [] tag = "sBad" -> PyStr(<<"a","b","c">>)
      [] OTHER -> PyNone

CapValue(tag) ==
    CASE tag = "s120" -> PyStr(<<"1","2","0">>)
      [] tag = "sBad" -> PyStr(<<"n","/","a">>)
      [] OTHER -> PyNone

UidValue(tag, target) ==
    IF tag = "target" THEN PyStr(target) ELSE PyStr(<<"S","S","D","-","5">>)

\* What the sender of a record meant by it.
FillIsNumber(it) == it.fill \in {"s12", "i0", "s7_9", "sNeg3"}
FillMeans(it) ==
    CASE it.fill = "s12" -> 12 [] it.fill = "i0" -> 0
      [] it.fill = "s7_9" -> 7 [] OTHER -> 0 - 3
CapMeans(it) == IF it.cap = "s120" THEN Some(120) ELSE Nothing
\* A record for the requested facility with a usable currentfill.
IsValidTarget(it) == it.k = "dict" /\ it.uid = "target" /\ FillIsNumber(it)
FrameHasValid(f) ==
    f.k = "list" /\ \E i \in 1..Len(f.items) : IsValidTarget(f.items[i])
\* The first such record of a frame, as (count, capacity).
FrameFirstValid(f) ==
    LET i == Least({j \in 1..Len(f.items) : IsValidTarget(f.items[j])})
    IN  [count |-> FillMeans(f.items[i]), capacity |-> CapMeans(f.items[i])]

-----------------------------------------------------------------------------
(* _recv_once: the scan of one frame.                                      *)

\* float(str): optional sign, digits, optional fraction; the integer part
\* (truncated towards zero by int()), or Nothing for ValueError.
IntOfFloatStr(chars) ==
    LET t == Strip(chars)
        neg == Len(t) >= 1 /\ t[1] = "-"
        a == IF Len(t) >= 1 /\ t[1] \in {"-", "+"} THEN 2 ELSE 1
        b == SkipDigits(t, a)
        c == IF b <= Len(t) /\ t[b] = "." THEN SkipDigits(t, b + 1) ELSE b
        mag == DigitsToInt(SubSeq(t, a, b - 1))
    IN  IF b > a /\ c = Len(t) + 1
        THEN Some(IF neg THEN 0 - mag ELSE mag)
        ELSE Nothing

\* int(float(v)): Some(int), or Nothing when it raises.
IntOfFloat(v) ==
    CASE v.ty = "int" -> Some(v.n)
      [] v.ty = "str" -> IntOfFloatStr(v.s)
      [] OTHER -> Nothing

RECURSIVE ScanItems(_, _, _)
\* The for loop of _recv_once over payload, from item i: Some([count,
\* capacity]) for the tuple returned, Nothing for None.
ScanItems(items, i, target) ==
    IF i > Len(items) THEN Nothing
    ELSE LET it == items[i]
         IN  IF it.k = "dict" /\ UidValue(it.uid, target) = PyStr(target)
             THEN LET current == FillValue(it.fill)
                      maxspace == CapValue(it.cap)
                  IN  IF IntOfFloat(current) = Nothing
                      THEN Nothing
                      ELSE Some([count |-> IntOfFloat(current)[1],
                                 capacity |-> IF maxspace.ty = "none"
                                              THEN Nothing
                                              ELSE IntOfFloat(maxspace)])
             ELSE ScanItems(items, i + 1, target)

\* _recv_once after json.loads succeeded on the frame.
_recv_once(frame, target) ==
    IF frame.k = "list" THEN ScanItems(frame.items, 1, target) ELSE Nothing

-----------------------------------------------------------------------------
(* fetch_guest_count_async and _fetch_count_via_websocket as a state       *)
(* machine.  One invocation; each await is a step of its own.              *)

\* What reaches the caller: a GuestCount or an exception.
Returned(count, capacity, via) ==
    [k |-> "returned", exc |-> "", msg |-> "", count |-> count,
     capacity |-> capacity, via |-> via]
Raised(exc, msg) ==
    [k |-> "raised", exc |-> exc, msg |-> msg, count |-> 0,
     capacity |-> Nothing, via |-> ""]
Falling == [k |-> "falling", exc |-> "", msg |-> "", count |-> 0,
            capacity |-> Nothing, via |-> ""]
NoOutcome == [k |-> "none", exc |-> "", msg |-> "", count |-> 0,
              capacity |-> Nothing, via |-> ""]

\* The exceptions client.get can raise, and the status codes it can return.
GetExceptions == {"ConnectError", "ReadTimeout", "InvalidURL"}
Statuses == {200, 404, 503}

\* The exception classes derived from httpx.HTTPError.
IsHTTPError(exc) == exc \in {"ConnectError", "ReadTimeout", "HTTPStatusError"}

\* Fault variant of ExceptHTTPError: the handler is missing, the
\* exception leaves the engine as it is.
ExceptHTTPError_Missing(exc) == Raised(exc, "")

\* The handler "except httpx.HTTPError" around the body of the try.
ExceptHTTPError(exc) ==
    IF IsHTTPError(exc)
    THEN Raised("GuestCountError", "FetchFailed")
    ELSE Raised(exc, "")

\* The handler "except Exception" around the feed session, and the raise
\* after it: CancelledError is no Exception and passes through.
ExceptException(p) ==
    IF p.k = "raised" /\ p.exc # "CancelledError"
    THEN Raised("GuestCountError", "FeedError")
    ELSE IF p.k = "falling"
         THEN Raised("GuestCountError", "FeedExhausted")
         ELSE p

\* Frames tried after the first one (the range of the for loop).
ExtraRecvs == 2

ZeroCnt == [get |-> 0, parse |-> 0, recover |-> 0, dump |-> 0, connect |-> 0,
            send |-> 0, recv |-> 0, wsClose |-> 0, close |-> 0]

Bump(f) == [cnt EXCEPT ![f] = @ + 1]

NormIdle == nPc = "off" /\ nDoc = <<>> /\ nOnce = <<>> /\ nTwice = <<>>

\* Most instants the clock of the model tells apart.
MaxInstant == 2

\* The values dt.datetime.now(dt.timezone.utc) can give.
Instants == 1..MaxInstant

\* timeout=30.0 of the client the engine creates.
OwnTimeout == 30

\* The timeout of a client the caller supplies: httpx's default of 5
\* seconds, or none (timeout=None), written 0.
ClientTimeouts == {0, 5}

\* No caller: the engine is looked at on its own.
NoReply == [k |-> "none", code |-> 0]
CallerIdle ==
    /\ caller = "none"
    /\ cPc = "off"
    /\ session = <<>>
    /\ store = <<>>
    /\ reply = NoReply

\* No concurrent invocations.
PairIdle == inv = <<>>

\* The state at the call of fetch_guest_count_async.
EngineInit ==
    /\ pc = "start"
    /\ httpxAvail \in BOOLEAN
    /\ wsAvail \in BOOLEAN
    /\ clientGiven \in BOOLEAN
    /\ closeClient = FALSE
    /\ clientOpen = clientGiven
    /\ page = None
    /\ getResult = "none"
    /\ parsed = None
    /\ uid = Nothing
    /\ dumpOk = TRUE
    /\ wsOpen = FALSE
    /\ raw = None
    /\ result = Nothing
    /\ hits = <<>>
    /\ pending = NoOutcome
    /\ outcome = NoOutcome
    /\ cnt = ZeroCnt
    /\ stamp = 0
    /\ timeout \in (IF clientGiven THEN ClientTimeouts ELSE {0})
    /\ dumpFile = None

Init == EngineInit /\ NormIdle /\ CallerIdle /\ PairIdle

\* html = response.text
html == Render(page)

\* importlib.import_module("httpx")
ImportHttpx ==
    /\ pc = "start"
    /\ IF httpxAvail
       THEN pc' = "makeClient" /\ outcome' = outcome
       ELSE pc' = "done" /\ outcome' = Raised("GuestCountError", "NoHttpx")
    /\ UNCHANGED <<httpxAvail, wsAvail, clientGiven, closeClient, clientOpen,
                   page, getResult, parsed, uid, dumpOk, wsOpen, raw, result,
                   hits, pending, cnt, stamp, timeout, dumpFile,
                   restVars>>

\* The choice between the caller's client and one of the engine's own.
MakeClient ==
    /\ pc = "makeClient"
    /\ closeClient' = ~clientGiven
    /\ clientOpen' = TRUE
    /\ timeout' = IF clientGiven THEN timeout ELSE OwnTimeout
    /\ pc' = "get"
    /\ UNCHANGED <<httpxAvail, wsAvail, clientGiven, page, getResult, parsed,
                   uid, dumpOk, wsOpen, raw, result, hits, pending, outcome,
                   cnt, stamp, dumpFile,
                   restVars>>

\* async_client.get(url) is called and awaited.
IssueGet ==
    /\ pc = "get"
    /\ cnt' = Bump("get")
    /\ pc' = "awaitGet"
    /\ UNCHANGED <<httpxAvail, wsAvail, clientGiven, closeClient, clientOpen,
                   page, getResult, parsed, uid, dumpOk, wsOpen, raw, result,
                   hits, pending, outcome, stamp, timeout, dumpFile,
                   restVars>>

\* Fault variant of GetRaises: a failed GET is tried again.
GetRaises_Retries ==
    /\ pc = "awaitGet"
    /\ \E e \in GetExceptions : getResult' = e
    /\ pc' = "get"
    /\ UNCHANGED <<httpxAvail, wsAvail, clientGiven, closeClient, clientOpen,
                   page, parsed, uid, dumpOk, wsOpen, raw, result, hits,
                   pending, outcome, cnt, stamp, timeout, dumpFile,
                   restVars>>

\* The GET raises for a reason other than the timeout of the client.
GetRaises ==
    /\ pc = "awaitGet"
    /\ \E e \in GetExceptions \ {"ReadTimeout"} :
          /\ getResult' = e
          /\ pending' = ExceptHTTPError(e)
    /\ pc' = "finally"
    /\ UNCHANGED <<httpxAvail, wsAvail, clientGiven, closeClient, clientOpen,
                   page, parsed, uid, dumpOk, wsOpen, raw, result, hits,
                   outcome, cnt, stamp, timeout, dumpFile,
                   restVars>>

\* No response within the timeout of the client in use: httpx raises
\* ReadTimeout, if that client has a timeout.
GetTimesOut ==
    /\ pc = "awaitGet"
    /\ timeout > 0
    /\ getResult' = "ReadTimeout"
    /\ pending' = ExceptHTTPError("ReadTimeout")
    /\ pc' = "finally"
    /\ UNCHANGED <<httpxAvail, wsAvail, clientGiven, closeClient, clientOpen,
                   page, parsed, uid, dumpOk, wsOpen, raw, result, hits,
                   outcome, cnt, stamp, timeout, dumpFile,
                   restVars>>

\* The GET returns a response; raise_for_status; html = response.text.
GetReturns ==
    /\ pc = "awaitGet"
    /\ \E st \in Statuses :
          IF st \in 200..299
          THEN /\ \E p \in Pages : page' = p
               /\ getResult' = "ok"
               /\ pending' = pending
               /\ pc' = "parse"
          ELSE /\ page' = page
               /\ getResult' = "HTTPStatusError"
               /\ pending' = ExceptHTTPError("HTTPStatusError")
               /\ pc' = "finally"
    /\ UNCHANGED <<httpxAvail, wsAvail, clientGiven, closeClient, clientOpen,
                   parsed, uid, dumpOk, wsOpen, raw, result, hits, outcome,
                   cnt, stamp, timeout, dumpFile,
                   restVars>>

\* The task is cancelled while it awaits the GET.
CancelGet ==
    /\ pc = "awaitGet"
    /\ getResult' = "CancelledError"
    /\ pending' = ExceptHTTPError("CancelledError")
    /\ pc' = "finally"
    /\ UNCHANGED <<httpxAvail, wsAvail, clientGiven, closeClient, clientOpen,
                   page, parsed, uid, dumpOk, wsOpen, raw, result, hits,
                   outcome, cnt, stamp, timeout, dumpFile,
                   restVars>>

\* Fault variant of Parse: the return after a successful parse is missing,
\* so the fallback runs as well.
Parse_FallsThrough ==
    /\ pc = "parse"
    /\ parsed' = _parse_guest_count(html)
    /\ IF parsed'.k = "ok" THEN stamp' \in Instants ELSE stamp' = stamp
    /\ cnt' = Bump("parse")
    /\ pending' = pending
    /\ pc' = "recover"
    /\ UNCHANGED <<httpxAvail, wsAvail, clientGiven, closeClient, clientOpen,
                   page, getResult, uid, dumpOk, wsOpen, raw, result, hits,
                   outcome, timeout, dumpFile,
                   restVars>>

\* guest_count = _parse_guest_count(html); return it, or catch its error.
Parse ==
    /\ pc = "parse"
    /\ parsed' = _parse_guest_count(html)
    /\ IF parsed'.k = "ok" THEN stamp' \in Instants ELSE stamp' = stamp
    /\ cnt' = Bump("parse")
    /\ IF parsed'.k = "ok"
       THEN /\ pending' = Returned(parsed'.count, parsed'.capacity, "page")
            /\ pc' = "finally"
       ELSE /\ pending' = pending
            /\ pc' = "recover"
    /\ UNCHANGED <<httpxAvail, wsAvail, clientGiven, closeClient, clientOpen,
                   page, getResult, uid, dumpOk, wsOpen, raw, result, hits,
                   outcome, timeout, dumpFile,
                   restVars>>

\* uid = _extract_uid_from_html(html)
RecoverUid ==
    /\ pc = "recover"
    /\ uid' = _extract_uid_from_html(html)
    /\ cnt' = Bump("recover")
    /\ pc' = IF uid' = Nothing THEN "dump" ELSE "wsImport"
    /\ UNCHANGED <<httpxAvail, wsAvail, clientGiven, closeClient, clientOpen,
                   page, getResult, parsed, dumpOk, wsOpen, raw, result, hits,
                   pending, outcome, stamp, timeout, dumpFile,
                   restVars>>

\* Fault variant of _maybe_dump_html_for_debug: the write is not guarded,
\* so its OSError replaces the error of the parse.
DebugDump_Unguarded ==
    /\ pc = "dump"
    /\ dumpOk' \in BOOLEAN
    /\ dumpFile' = IF dumpOk' THEN page ELSE dumpFile
    /\ cnt' = Bump("dump")
    /\ pending' = IF dumpOk'
                  THEN Raised("GuestCountError", "NotFound")
                  ELSE Raised("OSError", "")
    /\ pc' = "finally"
    /\ UNCHANGED <<httpxAvail, wsAvail, clientGiven, closeClient, clientOpen,
                   page, getResult, parsed, uid, wsOpen, raw, result, hits,
                   outcome, stamp, timeout,
                   restVars>>

\* _maybe_dump_html_for_debug(html), which may fail to write, then the
\* bare raise of the error caught from _parse_guest_count.
_maybe_dump_html_for_debug ==
    /\ pc = "dump"
    /\ dumpOk' \in BOOLEAN
    /\ dumpFile' = IF dumpOk' THEN page ELSE dumpFile
    /\ cnt' = Bump("dump")
    /\ pending' = Raised("GuestCountError", "NotFound")
    /\ pc' = "finally"
    /\ UNCHANGED <<httpxAvail, wsAvail, clientGiven, closeClient, clientOpen,
                   page, getResult, parsed, uid, wsOpen, raw, result, hits,
                   outcome, stamp, timeout,
                   restVars>>

\* Fault variant of ImportWebsockets: the library is probed only after the
\* connection attempt was started.
ImportWebsockets_AfterConnect ==
    /\ pc = "wsImport"
    /\ cnt' = Bump("connect")
    /\ IF wsAvail
       THEN pc' = "wsSend" /\ pending' = pending /\ wsOpen' = TRUE
       ELSE /\ pc' = "finally"
            /\ pending' = Raised("GuestCountError", "NoWebsockets")
            /\ wsOpen' = FALSE
    /\ UNCHANGED <<httpxAvail, wsAvail, clientGiven, closeClient, clientOpen,
                   page, getResult, parsed, uid, dumpOk, raw, result,
                   hits, outcome, stamp, timeout, dumpFile,
                   restVars>>

\* importlib.import_module("websockets")
ImportWebsockets ==
    /\ pc = "wsImport"
    /\ IF wsAvail
       THEN pc' = "wsConnect" /\ pending' = pending
       ELSE /\ pc' = "finally"
            /\ pending' = Raised("GuestCountError", "NoWebsockets")
    /\ UNCHANGED <<httpxAvail, wsAvail, clientGiven, closeClient, clientOpen,
                   page, getResult, parsed, uid, dumpOk, wsOpen, raw, result,
                   hits, outcome, cnt, stamp, timeout, dumpFile,
                   restVars>>

\* async with websockets.connect(...): the handshake succeeds or raises.
WsConnect ==
    /\ pc = "wsConnect"
    /\ cnt' = Bump("connect")
    /\ \E ok \in BOOLEAN :
          IF ok
          THEN wsOpen' = TRUE /\ pc' = "wsSend" /\ pending' = pending
          ELSE /\ wsOpen' = FALSE
               /\ pc' = "finally"
               /\ pending' = ExceptException(Raised("OSError", ""))
    /\ UNCHANGED <<httpxAvail, wsAvail, clientGiven, closeClient, clientOpen,
                   page, getResult, parsed, uid, dumpOk, raw, result, hits,
                   outcome, stamp, timeout, dumpFile,
                   restVars>>

\* await ws.send("all")
WsSend ==
    /\ pc = "wsSend"
    /\ cnt' = Bump("send")
    /\ \E ok \in BOOLEAN :
          IF ok
          THEN pc' = "wsRecv" /\ pending' = pending
          ELSE pc' = "wsExit" /\ pending' = Raised("ConnectionClosed", "")
    /\ UNCHANGED <<httpxAvail, wsAvail, clientGiven, closeClient, clientOpen,
                   page, getResult, parsed, uid, dumpOk, wsOpen, raw, result,
                   hits, outcome, stamp, timeout, dumpFile,
                   restVars>>

\* raw = await asyncio.wait_for(ws.recv(), timeout=10.0): a frame arrives.
WsRecv ==
    /\ pc = "wsRecv"
    /\ cnt' = Bump("recv")
    /\ raw' \in Frames
    /\ pc' = "wsScan"
    /\ UNCHANGED <<httpxAvail, wsAvail, clientGiven, closeClient, clientOpen,
                   page, getResult, parsed, uid, dumpOk, wsOpen, result, hits,
                   pending, outcome, stamp, timeout, dumpFile,
                   restVars>>

\* The wait for the frame times out.
WsRecvTimeout ==
    /\ pc = "wsRecv"
    /\ cnt' = Bump("recv")
    /\ pending' = Raised("TimeoutError", "")
    /\ pc' = "wsExit"
    /\ UNCHANGED <<httpxAvail, wsAvail, clientGiven, closeClient, clientOpen,
                   page, getResult, parsed, uid, dumpOk, wsOpen, raw, result,
                   hits, outcome, stamp, timeout, dumpFile,
                   restVars>>

\* The task is cancelled while it awaits the send or a frame.
CancelFeed ==
    /\ pc \in {"wsSend", "wsRecv"}
    /\ pending' = Raised("CancelledError", "")
    /\ pc' = "wsExit"
    /\ UNCHANGED <<httpxAvail, wsAvail, clientGiven, closeClient, clientOpen,
                   page, getResult, parsed, uid, dumpOk, wsOpen, raw, result,
                   hits, outcome, cnt, stamp, timeout, dumpFile,
                   restVars>>

\* Fault variant of WsScan: a frame that is no JSON counts as a frame
\* without a match and the session reads on.
WsScan_SkipsBadJson ==
    /\ pc = "wsScan"
    /\ result' = IF raw.k = "badjson" THEN Nothing ELSE _recv_once(raw, uid[1])
    /\ hits' = Append(hits, FrameHasValid(raw))
    /\ pending' = pending
    /\ pc' = "wsDecide"
    /\ UNCHANGED <<httpxAvail, wsAvail, clientGiven, closeClient, clientOpen,
                   page, getResult, parsed, uid, dumpOk, wsOpen, raw, outcome,
                   cnt, stamp, timeout, dumpFile,
                   restVars>>

\* payload = json.loads(raw) and the scan of _recv_once.
WsScan ==
    /\ pc = "wsScan"
    /\ IF raw.k = "badjson"
       THEN /\ pending' = Raised("JSONDecodeError", "")
            /\ pc' = "wsExit"
            /\ UNCHANGED <<result, hits>>
       ELSE /\ result' = _recv_once(raw, uid[1])
            /\ hits' = Append(hits, FrameHasValid(raw))
            /\ pending' = pending
            /\ pc' = "wsDecide"
    /\ UNCHANGED <<httpxAvail, wsAvail, clientGiven, closeClient, clientOpen,
                   page, getResult, parsed, uid, dumpOk, wsOpen, raw, outcome,
                   cnt, stamp, timeout, dumpFile,
                   restVars>>

\* Fault variant of WsDecide: the result is tested for truth ("if result
\* and result[0]"), so a count of zero reads as no result.
WsDecide_Truthy ==
    /\ pc = "wsDecide"
    /\ IF result # Nothing /\ result[1].count # 0
       THEN /\ pending' = Returned(result[1].count, result[1].capacity, "feed")
            /\ pc' = "wsExit"
       ELSE IF cnt.recv < 1 + ExtraRecvs
            THEN pending' = pending /\ pc' = "wsRecv"
            ELSE pending' = Falling /\ pc' = "wsExit"
    /\ raw' = None
    /\ UNCHANGED <<httpxAvail, wsAvail, clientGiven, closeClient, clientOpen,
                   page, getResult, parsed, uid, dumpOk, wsOpen, result, hits,
                   outcome, cnt, stamp, timeout, dumpFile,
                   restVars>>

\* Fault variant of WsDecide: the request is sent again before each further
\* receive.
WsDecide_Resends ==
    /\ pc = "wsDecide"
    /\ IF result # Nothing
       THEN /\ pending' = Returned(result[1].count, result[1].capacity, "feed")
            /\ pc' = "wsExit"
       ELSE IF cnt.recv < 1 + ExtraRecvs
            THEN pending' = pending /\ pc' = "wsSend"
            ELSE pending' = Falling /\ pc' = "wsExit"
    /\ raw' = None
    /\ UNCHANGED <<httpxAvail, wsAvail, clientGiven, closeClient, clientOpen,
                   page, getResult, parsed, uid, dumpOk, wsOpen, result, hits,
                   outcome, cnt, stamp, timeout, dumpFile,
                   restVars>>

\* if result is not None: return result; otherwise the next round of the
\* loop, or the end of the with block once the loop is through.  The frame
\* was a local of _recv_once and is gone.
WsDecide ==
    /\ pc = "wsDecide"
    /\ IF result # Nothing
       THEN /\ pending' = Returned(result[1].count, result[1].capacity, "feed")
            /\ pc' = "wsExit"
       ELSE IF cnt.recv < 1 + ExtraRecvs
            THEN pending' = pending /\ pc' = "wsRecv"
            ELSE pending' = Falling /\ pc' = "wsExit"
    /\ raw' = None
    /\ UNCHANGED <<httpxAvail, wsAvail, clientGiven, closeClient, clientOpen,
                   page, getResult, parsed, uid, dumpOk, wsOpen, result, hits,
                   outcome, cnt, stamp, timeout, dumpFile,
                   restVars>>

\* Fault variant of WsExit: the connection is closed by a plain call
\* after the loop, which an exception in flight skips.
WsExit_SkippedOnError ==
    /\ pc = "wsExit"
    /\ wsOpen' = (pending.k = "raised")
    /\ cnt' = IF pending.k = "raised" THEN cnt ELSE Bump("wsClose")
    /\ pending' = ExceptException(pending)
    /\ IF pending.k = "returned" THEN stamp' \in Instants ELSE stamp' = stamp
    /\ pc' = "finally"
    /\ UNCHANGED <<httpxAvail, wsAvail, clientGiven, closeClient, clientOpen,
                   page, getResult, parsed, uid, dumpOk, raw, result, hits,
                   outcome, timeout, dumpFile,
                   restVars>>

\* The exit of the async with block closes the connection; then the
\* handler of the session and the raise after it, or the GuestCount built
\* from the tuple returned, stamped with the current instant.
WsExit ==
    /\ pc = "wsExit"
    /\ wsOpen' = FALSE
    /\ cnt' = Bump("wsClose")
    /\ pending' = ExceptException(pending)
    /\ IF pending.k = "returned" THEN stamp' \in Instants ELSE stamp' = stamp
    /\ pc' = "finally"
    /\ UNCHANGED <<httpxAvail, wsAvail, clientGiven, closeClient, clientOpen,
                   page, getResult, parsed, uid, dumpOk, raw, result, hits,
                   outcome, timeout, dumpFile,
                   restVars>>

\* Fault variant of Finally: the client in use is closed whoever owns it.
Finally_ClosesAny ==
    /\ pc = "finally"
    /\ clientOpen' = FALSE
    /\ cnt' = Bump("close")
    /\ outcome' = pending
    /\ pc' = "done"
    /\ UNCHANGED <<httpxAvail, wsAvail, clientGiven, closeClient, page,
                   getResult, parsed, uid, dumpOk, wsOpen, raw, result, hits,
                   pending, stamp, timeout, dumpFile,
                   restVars>>

\* finally: close the client the engine made; the caller gets the outcome.
Finally ==
    /\ pc = "finally"
    /\ IF closeClient
       THEN clientOpen' = FALSE /\ cnt' = Bump("close")
       ELSE clientOpen' = clientOpen /\ cnt' = cnt
    /\ outcome' = pending
    /\ pc' = "done"
    /\ UNCHANGED <<httpxAvail, wsAvail, clientGiven, closeClient, page,
                   getResult, parsed, uid, dumpOk, wsOpen, raw, result, hits,
                   pending, stamp, timeout, dumpFile,
                   restVars>>

Next ==
    \/ ImportHttpx
    \/ MakeClient
    \/ IssueGet
    \/ GetRaises
    \/ GetTimesOut
    \/ GetReturns
    \/ CancelGet
    \/ Parse
    \/ RecoverUid
    \/ _maybe_dump_html_for_debug
    \/ ImportWebsockets
    \/ WsConnect
    \/ WsSend
    \/ WsRecv
    \/ WsRecvTimeout
    \/ CancelFeed
    \/ WsScan
    \/ WsDecide
    \/ WsExit
    \/ Finally

Spec == Init /\ [][Next]_vars

\* The engine on an event loop that keeps running: a timer that is armed
\* fires unless the wait ends before.  The timers of an invocation are the
\* timeout of the HTTP client in use and the 10 seconds of
\* asyncio.wait_for around ws.recv().  A response, a frame and a
\* cancellation are up to the peer and the caller: nothing says they come.
SpecLive ==
    /\ Init
    /\ [][Next]_vars
    /\ WF_vars(GetTimesOut)
    /\ WF_vars(WsRecvTimeout)

-----------------------------------------------------------------------------
(* The Text Normalizer applied to a document and then to its own output.   *)

NormPieces ==
    {<<>>, <<"<">>, <<">">>, <<" ">>, <<"x">>, <<"7">>,
     <<"&","l","t",";">>, <<"&","g","t",";">>, <<"&","a","m","p",";">>,
     <<"&","n","b","s","p",";">>, <<"&","#","3","2",";">>,
     <<"<","b",">">>, <<"l","t",";">>}

NormDocs == {a \o b \o c : a \in NormPieces, b \in NormPieces, c \in NormPieces}

EngineIdle ==
    /\ pc = "off"
    /\ httpxAvail = TRUE
    /\ wsAvail = TRUE
    /\ clientGiven = FALSE
    /\ closeClient = FALSE
    /\ clientOpen = FALSE
    /\ page = None
    /\ getResult = "none"
    /\ parsed = None
    /\ uid = Nothing
    /\ dumpOk = TRUE
    /\ wsOpen = FALSE
    /\ raw = None
    /\ result = Nothing
    /\ hits = <<>>
    /\ pending = NoOutcome
    /\ outcome = NoOutcome
    /\ cnt = ZeroCnt
    /\ stamp = 0
    /\ timeout = 0
    /\ dumpFile = None

InitNorm ==
    /\ EngineIdle
    /\ CallerIdle
    /\ PairIdle
    /\ nPc = "start"
    /\ nDoc \in NormDocs
    /\ nOnce = <<>>
    /\ nTwice = <<>>

\* text = _extract_visible_text(doc)
NormalizeOnce ==
    /\ nPc = "start"
    /\ nOnce' = _extract_visible_text(nDoc)
    /\ nPc' = "once"
    /\ UNCHANGED <<engineVars, callerVars, inv, nDoc, nTwice>>

\* _extract_visible_text(text): the normalizer on its own output
NormalizeTwice ==
    /\ nPc = "once"
    /\ nTwice' = _extract_visible_text(nOnce)
    /\ nPc' = "twice"
    /\ UNCHANGED <<engineVars, callerVars, inv, nDoc, nOnce>>

NextNorm == NormalizeOnce \/ NormalizeTwice

SpecNorm == InitNorm /\ [][NextNorm]_vars

-----------------------------------------------------------------------------
(* The callers of the engine, api_log of src/app/main.py and main of       *)
(* src/scripts/log_guest_count.py, and the table they write to.            *)

\* A row of the table guest_logs.
GuestLog(recorded_at, count, capacity) ==
    [recorded_at |-> recorded_at, count |-> count, capacity |-> capacity]

\* crud.log_guest_count: the new row is added to the session.
log_guest_count(sess, timestamp, count, capacity) ==
    Append(sess, GuestLog(timestamp, count, capacity))

\* The rows the table holds before the invocation.
PriorRows == <<GuestLog(0, 41, Some(120))>>

Status(code) == [k |-> "status", code |-> code]
ExitStatus(code) == [k |-> "exit", code |-> code]

\* The caller has called fetch_guest_count_async() without a client.
InitCaller ==
    /\ EngineInit
    /\ ~clientGiven
    /\ NormIdle
    /\ PairIdle
    /\ caller \in {"api", "script"}
    /\ cPc = "await"
    /\ session = <<>>
    /\ store = PriorRows
    /\ reply = NoReply

\* Fault variant of ApiLogExcept: a reading of zero is recorded when the
\* engine fails.
ApiLogExcept_Persists ==
    /\ caller = "api"
    /\ cPc = "await"
    /\ pc = "done"
    /\ outcome.k = "raised"
    /\ store' = Append(store, GuestLog(0, 0, Nothing))
    /\ reply' = Status(502)
    /\ cPc' = "close"
    /\ UNCHANGED <<engineVars, normVars, inv, caller, session>>

\* api_log, the engine raised: GuestCountError becomes HTTPException(502);
\* any other exception leaves the handler (the framework answers 500; a
\* cancelled request gets no answer).
ApiLogExcept ==
    /\ caller = "api"
    /\ cPc = "await"
    /\ pc = "done"
    /\ outcome.k = "raised"
    /\ reply' = CASE outcome.exc = "GuestCountError" -> Status(502)
                  [] outcome.exc = "CancelledError" -> NoReply
                  [] OTHER -> Status(500)
    /\ cPc' = "close"
    /\ UNCHANGED <<engineVars, normVars, inv, caller, session, store>>

\* api_log, the engine returned: entry = crud.log_guest_count(...)
ApiLogAdd ==
    /\ caller = "api"
    /\ cPc = "await"
    /\ pc = "done"
    /\ outcome.k = "returned"
    /\ session' = log_guest_count(session, stamp, outcome.count,
                                  outcome.capacity)
    /\ cPc' = "commit"
    /\ UNCHANGED <<engineVars, normVars, inv, caller, store, reply>>

\* api_log: session.commit(), session.refresh(entry), the LogResponse.
ApiLogCommit ==
    /\ caller = "api"
    /\ cPc = "commit"
    /\ store' = store \o session
    /\ session' = <<>>
    /\ reply' = Status(200)
    /\ cPc' = "close"
    /\ UNCHANGED <<engineVars, normVars, inv, caller>>

\* get_session, after the handler: session.close() drops what was added
\* and not committed.
get_session ==
    /\ caller = "api"
    /\ cPc = "close"
    /\ session' = <<>>
    /\ cPc' = "done"
    /\ UNCHANGED <<engineVars, normVars, inv, caller, store, reply>>

\* main of the script, the engine raised: GuestCountError is logged and
\* becomes SystemExit(1); any other exception ends the process with a
\* traceback and status 1 as well.
MainExcept ==
    /\ caller = "script"
    /\ cPc = "await"
    /\ pc = "done"
    /\ outcome.k = "raised"
    /\ reply' = ExitStatus(1)
    /\ cPc' = "done"
    /\ UNCHANGED <<engineVars, normVars, inv, caller, session, store>>

\* main of the script, the engine returned: a session is opened and
\* entry = crud.log_guest_count(...)
MainAdd ==
    /\ caller = "script"
    /\ cPc = "await"
    /\ pc = "done"
    /\ outcome.k = "returned"
    /\ session' = log_guest_count(session, stamp, outcome.count,
                                  outcome.capacity)
    /\ cPc' = "commit"
    /\ UNCHANGED <<engineVars, normVars, inv, caller, store, reply>>

\* main of the script: session.commit(), the log line, the end of the with
\* block and of the process.
MainCommit ==
    /\ caller = "script"
    /\ cPc = "commit"
    /\ store' = store \o session
    /\ session' = <<>>
    /\ reply' = ExitStatus(0)
    /\ cPc' = "done"
    /\ UNCHANGED <<engineVars, normVars, inv, caller>>

NextCaller ==
    \/ Next
    \/ ApiLogExcept
    \/ ApiLogAdd
    \/ ApiLogCommit
    \/ get_session
    \/ MainExcept
    \/ MainAdd
    \/ MainCommit

SpecCaller == InitCaller /\ [][NextCaller]_vars

-----------------------------------------------------------------------------
(* Concurrent invocations of fetch_guest_count_async on one event loop.    *)
(* A coroutine runs without interruption from one await to the next, so a  *)
(* step is the code between two suspension points.  inv[i] holds the       *)
(* locals of invocation i and what the peers delivered to it; the only     *)
(* object the invocations share is the debug dump file.                    *)

\* Number of concurrent invocations.
Invocations == 2

InvIds == 1..Invocations

\* The pages and frames served to the concurrent invocations.
PairPages ==
    {p \in Pages : /\ p.lead = "none" /\ p.phrase = "none" /\ p.cellVal # 68
                   /\ p.cell # "loose" /\ p.cap = "none"}

PairFrames ==
    {f \in Frames : \/ f.k = "badjson"
                    \/ /\ f.k = "list"
                       /\ Len(f.items) = 1
                       /\ f.items[1].k = "dict"
                       /\ f.items[1].fill = "s12"
                       /\ f.items[1].cap = "s120"}

\* wait_for gave up on the frame.
NoFrame == [k |-> "timeout", items |-> <<>>]

\* The locals at the call.
NewLocal ==
    [pc |-> "start", get |-> "none", page |-> None, uid |-> Nothing,
     conn |-> "none", frames |-> <<>>, outcome |-> NoOutcome]

RECURSIVE SoloSession(_, _, _)
\* What _fetch_count_via_websocket gives on an open connection that
\* delivers the frames from the n-th on, run by itself.
SoloSession(frames, n, target) ==
    IF n > Len(frames) THEN NoOutcome
    ELSE IF frames[n].k \in {"timeout", "badjson"}
         THEN Raised("GuestCountError", "FeedError")
         ELSE LET r == _recv_once(frames[n], target)
              IN  IF r # Nothing
                  THEN Returned(r[1].count, r[1].capacity, "feed")
                  ELSE IF n = 1 + ExtraRecvs
                       THEN Raised("GuestCountError", "FeedExhausted")
                       ELSE SoloSession(frames, n + 1, target)

\* What fetch_guest_count_async gives, run by itself, on what was delivered
\* to the invocation with the locals l.
SoloOutcome(l) ==
    IF l.get # "ok" THEN ExceptHTTPError(l.get)
    ELSE LET h == Render(l.page)
             g == _parse_guest_count(h)
             u == _extract_uid_from_html(h)
         IN  IF g.k = "ok" THEN Returned(g.count, g.capacity, "page")
             ELSE IF u = Nothing THEN Raised("GuestCountError", "NotFound")
             ELSE IF l.conn # "ok"
                  THEN Raised("GuestCountError", "FeedError")
                  ELSE SoloSession(l.frames, 1, u[1])

\* Fault variant of PairHtml: the body is kept in a place the invocations
\* share (here the dump file) and read back from there.
PairHtml_Shared(p) == IF dumpFile = None THEN Render(p) ELSE Render(dumpFile)

\* html = response.text: the body of the invocation's own response.
PairHtml(p) == Render(p)

InitPair ==
    /\ EngineIdle
    /\ NormIdle
    /\ CallerIdle
    /\ inv = [i \in InvIds |-> NewLocal]

\* From the call to the await of the GET.
PairStart ==
    \E i \in InvIds :
        /\ inv[i].pc = "start"
        /\ inv' = [inv EXCEPT ![i].pc = "awaitGet"]
        /\ UNCHANGED <<engineVars, normVars, callerVars>>

\* The GET of invocation i ends; the code up to the next await: the handler
\* of the error, or parse, recovery and dump (which writes the file or
\* fails to), up to the connect.
PairGetDone ==
    \E i \in InvIds :
        /\ inv[i].pc = "awaitGet"
        /\ \/ \E e \in GetExceptions \cup {"HTTPStatusError"} :
                 /\ inv' = [inv EXCEPT ![i].pc = "done", ![i].get = e,
                                        ![i].outcome = ExceptHTTPError(e)]
                 /\ dumpFile' = dumpFile
           \/ \E p \in PairPages :
                 LET g == _parse_guest_count(PairHtml(p))
                     u == _extract_uid_from_html(PairHtml(p))
                     l == [inv[i] EXCEPT !.get = "ok", !.page = p]
                 IN  IF g.k = "ok"
                     THEN /\ inv' = [inv EXCEPT ![i] =
                                 [l EXCEPT !.pc = "done",
                                           !.outcome = Returned(g.count,
                                                          g.capacity, "page")]]
                          /\ dumpFile' = dumpFile
                     ELSE IF u = Nothing
                     THEN /\ inv' = [inv EXCEPT ![i] =
                                 [l EXCEPT !.pc = "done",
                                           !.outcome = Raised("GuestCountError",
                                                              "NotFound")]]
                          /\ dumpFile' \in {p, dumpFile}
                     ELSE /\ inv' = [inv EXCEPT ![i] =
                                 [l EXCEPT !.pc = "awaitConnect", !.uid = u]]
                          /\ dumpFile' = dumpFile
        /\ UNCHANGED <<localVars, normVars, callerVars>>

\* The handshake of invocation i ends.
PairConnected ==
    \E i \in InvIds, ok \in BOOLEAN :
        /\ inv[i].pc = "awaitConnect"
        /\ inv' = IF ok
                  THEN [inv EXCEPT ![i].pc = "awaitSend", ![i].conn = "ok"]
                  ELSE [inv EXCEPT ![i].pc = "done", ![i].conn = "failed",
                                   ![i].outcome = ExceptException(
                                                      Raised("OSError", ""))]
        /\ UNCHANGED <<engineVars, normVars, callerVars>>

\* The send of invocation i ends.
PairSent ==
    \E i \in InvIds, ok \in BOOLEAN :
        /\ inv[i].pc = "awaitSend"
        /\ inv' = IF ok
                  THEN [inv EXCEPT ![i].pc = "awaitRecv"]
                  ELSE [inv EXCEPT ![i].pc = "done", ![i].conn = "sendFailed",
                                   ![i].outcome = ExceptException(
                                               Raised("ConnectionClosed", ""))]
        /\ UNCHANGED <<engineVars, normVars, callerVars>>

\* A frame reaches invocation i, or its wait times out; _recv_once and the
\* code up to the next await.
PairFrame ==
    \E i \in InvIds, f \in PairFrames \cup {NoFrame} :
        /\ inv[i].pc = "awaitRecv"
        /\ LET l == [inv[i] EXCEPT !.frames = Append(@, f)]
               r == _recv_once(f, l.uid[1])
           IN  inv' = [inv EXCEPT ![i] =
                  IF f.k = "timeout"
                  THEN [l EXCEPT !.pc = "done",
                                 !.outcome = ExceptException(
                                                 Raised("TimeoutError", ""))]
                  ELSE IF f.k = "badjson"
                  THEN [l EXCEPT !.pc = "done",
                                 !.outcome = ExceptException(
                                                 Raised("JSONDecodeError", ""))]
                  ELSE IF r # Nothing
                  THEN [l EXCEPT !.pc = "done",
                                 !.outcome = Returned(r[1].count,
                                                      r[1].capacity, "feed")]
                  ELSE IF Len(l.frames) < 1 + ExtraRecvs
                  THEN l
                  ELSE [l EXCEPT !.pc = "done",
                                 !.outcome = ExceptException(Falling)]]
        /\ UNCHANGED <<engineVars, normVars, callerVars>>

NextPair ==
    \/ PairStart
    \/ PairGetDone
    \/ PairConnected
    \/ PairSent
    \/ PairFrame

SpecPair == InitPair /\ [][NextPair]_vars

-----------------------------------------------------------------------------
(* Properties.                                                             *)

\* C1: when the GET ends in a transport failure or a non-2xx status, the
\* invocation ends with GuestCountError (FetchFailed), and primary
\* extraction, identifier recovery, the debug dump and the feed connection
\* are never performed in it.
C1_FetchFailureIsImmediate ==
    getResult \in {"ConnectError", "ReadTimeout", "HTTPStatusError"} =>
        /\ cnt.parse = 0 /\ cnt.recover = 0 /\ cnt.dump = 0 /\ cnt.connect = 0
        /\ pc \in {"finally", "done"}
        /\ pc = "done" => outcome = Raised("GuestCountError", "FetchFailed")

C1_Witness ==
    /\ pc = "done"
    /\ getResult = "HTTPStatusError"
    /\ outcome = Raised("GuestCountError", "FetchFailed")

\* C2: identifier recovery runs only after primary extraction failed on the
\* fetched body; a feed connection is opened only after identifier recovery
\* returned the identifier of that body; when primary extraction succeeds,
\* its observation is what is returned and neither recovery nor a feed
\* connection happens.
C2_StepsOrderedAndGuarded ==
    /\ cnt.parse > 0 => getResult = "ok"
    /\ cnt.recover > 0 => cnt.parse = 1 /\ parsed.k = "err"
    /\ cnt.connect > 0 =>
          cnt.recover = 1 /\ uid # Nothing /\ uid = PageUid(page)
    /\ parsed.k = "ok" =>
          /\ cnt.recover = 0 /\ cnt.connect = 0
          /\ pc \in {"finally", "done"}
          /\ pc = "done" =>
                outcome = Returned(parsed.count, parsed.capacity, "page")

C2_Witness ==
    /\ pc = "done"
    /\ parsed.k = "err"
    /\ cnt.connect = 1
    /\ outcome.k = "returned"
    /\ outcome.via = "feed"

\* C3: page fetched, primary extraction failed, no identifier recovered:
\* the invocation ends with the NotFound error of the primary extractor and
\* no feed connection, whether the debug dump could be written or not.
C3_NotFoundSurvivesDump ==
    (pc = "done" /\ parsed.k = "err" /\ cnt.recover = 1 /\ uid = Nothing) =>
        /\ outcome = Raised("GuestCountError", "NotFound")
        /\ cnt.dump = 1
        /\ cnt.connect = 0

C3_Witness ==
    /\ pc = "done"
    /\ parsed.k = "err"
    /\ uid = Nothing
    /\ cnt.dump = 1
    /\ ~dumpOk
    /\ outcome = Raised("GuestCountError", "NotFound")

\* C4: a feed session receives at most 3 frames; it returns (count,
\* capacity) at the first frame that contains a record of the requested uid
\* with a valid currentfill and reads no frame after that one; after 3
\* frames without such a record it fails with GuestCountError.
C4_ReturnsAtFirstValidFrame ==
    /\ cnt.recv <= 3
    /\ \A i \in 1..(Len(hits) - 1) : ~hits[i]
    /\ pc = "wsDecide" =>
          IF FrameHasValid(raw)
          THEN result = Some(FrameFirstValid(raw))
          ELSE result = Nothing
    /\ (pc = "done" /\ Len(hits) = 3 /\ \A i \in 1..3 : ~hits[i]) =>
          outcome = Raised("GuestCountError", "FeedExhausted")

\* C5: whatever fails during the fetch or the feed session, the only error
\* the caller of fetch_guest_count_async sees is GuestCountError.
C5_OnlyGuestCountError ==
    (pc = "done" /\ outcome.k = "raised" /\ outcome.exc # "CancelledError") =>
        outcome.exc = "GuestCountError"

\* C6: the feed connection is closed on every way out of the session: once
\* the result or the failure is on its way to the caller, a connection that
\* was opened has been released.
C6_FeedClosedOnEveryExit ==
    pc \in {"finally", "done"} =>
        /\ ~wsOpen
        /\ cnt.send > 0 => cnt.wsClose = 1

C6_Witness ==
    /\ pc = "done"
    /\ cnt.send = 1
    /\ cnt.wsClose = 1
    /\ ~wsOpen
    /\ outcome.exc = "CancelledError"

\* C7 as stated: every invocation issues exactly one GET, parses at most
\* once and opens at most one feed connection.
C7_ExactlyOneGet ==
    /\ cnt.get <= 1 /\ cnt.parse <= 1 /\ cnt.connect <= 1
    /\ pc = "done" => cnt.get = 1

\* C7 amended: every invocation issues at most one GET (exactly one when
\* httpx can be imported, none when it cannot), parses at most once and
\* opens at most one feed connection; nothing is tried a second time.
C7_AtMostOneAttempt ==
    /\ cnt.get <= 1 /\ cnt.parse <= 1 /\ cnt.connect <= 1
    /\ pc = "done" => cnt.get = (IF httpxAvail THEN 1 ELSE 0)
    /\ pc = "done" => ~ENABLED Next

C7_Witness ==
    /\ pc = "done"
    /\ cnt.get = 1
    /\ cnt.parse = 1
    /\ cnt.connect = 1
    /\ outcome = Raised("GuestCountError", "FeedExhausted")

\* C8: the Text Normalizer is idempotent: normalizing its own output
\* changes nothing.
C8_NormalizerIdempotent == nPc = "twice" => nTwice = nOnce

\* C9: the cell strategy goes first: a page with a visitor-number cell
\* holding digits yields the cell's integer whatever the free text says;
\* without such a cell the count of the free-text phrase; with neither,
\* GuestCountError and no observation from the page.
C9_StrategyOrder ==
    cnt.parse = 1 =>
        /\ CellHasCount(page) =>
              parsed.k = "ok" /\ parsed.count = page.cellVal
        /\ (~CellHasCount(page) /\ PhraseHasCount(page)) =>
              parsed.k = "ok" /\ parsed.count = PhraseVal(page)
        /\ (~CellHasCount(page) /\ ~PhraseHasCount(page)) =>
              /\ parsed.k = "err"
              /\ pending.via # "page"
              /\ outcome.via # "page"

C9_Witness ==
    /\ cnt.parse = 1
    /\ CellHasCount(page)
    /\ PhraseHasCount(page)
    /\ page.cellVal # PhraseVal(page)
    /\ parsed.k = "ok"
    /\ parsed.count = page.cellVal

\* C10: the capacity returned is that of the capacity phrase inside the
\* window that follows the count the strategy located (for the cell
\* strategy: the cell's count, not the same digits earlier in the text),
\* and None when that window holds no such phrase.
C10_CapacityFromWindowAfterCount ==
    (cnt.parse = 1 /\ parsed.k = "ok") => parsed.capacity = PageCapacity(page)

\* C11: every observation the caller gets, from the page or from the feed,
\* has a count that is not negative, whatever the page and the records hold.
C11_CountNonNegative ==
    (pc = "done" /\ outcome.k = "returned") => outcome.count >= 0

\* The frame without the records of the requested uid whose currentfill
\* does not coerce to an integer.
C16_WithoutUncoercible(frame) ==
    IF frame.k # "list" THEN frame
    ELSE [frame EXCEPT !.items =
            SelectSeq(@, LAMBDA it : ~(/\ it.k = "dict"
                                       /\ it.uid = "target"
                                       /\ ~FillIsNumber(it)))]

\* C16: a record of the requested uid whose currentfill does not coerce is
\* treated as not matching: the scan of a frame gives what it gives for the
\* frame without that record, so a later valid record of the uid in the
\* same frame is still returned.
C16_UncoercibleRecordIsSkipped ==
    pc = "wsDecide" => result = _recv_once(C16_WithoutUncoercible(raw), uid[1])

\* C15 as stated: a missing library is reported before any network
\* operation of the invocation: without httpx no GET, without websockets
\* neither the GET nor a feed connection.
C15_MissingLibraryBeforeAnyNetwork ==
    /\ pending.msg = "NoHttpx" \/ outcome.msg = "NoHttpx" =>
          cnt.get = 0 /\ cnt.connect = 0
    /\ pending.msg = "NoWebsockets" \/ outcome.msg = "NoWebsockets" =>
          cnt.get = 0 /\ cnt.connect = 0

\* C15 amended: a missing library is reported as GuestCountError before the
\* network operation that needs it: without httpx no GET and no feed
\* connection; without websockets no feed connection, send or receive, the
\* one GET of the invocation having been made before the fallback is tried.
C15_MissingLibraryBeforeItsUse ==
    /\ ~httpxAvail =>
          /\ cnt.get = 0 /\ cnt.connect = 0
          /\ pc = "done" => outcome = Raised("GuestCountError", "NoHttpx")
    /\ ~wsAvail =>
          /\ cnt.connect = 0 /\ cnt.send = 0 /\ cnt.recv = 0 /\ ~wsOpen
          /\ (pc = "done" /\ cnt.recover = 1 /\ uid # Nothing) =>
                outcome = Raised("GuestCountError", "NoWebsockets")
    /\ pending.msg = "NoWebsockets" \/ outcome.msg = "NoWebsockets" =>
          /\ ~wsAvail
          /\ cnt.get = 1 /\ parsed.k = "err" /\ uid # Nothing

C15_Witness ==
    /\ pc = "done"
    /\ ~wsAvail
    /\ cnt.get = 1
    /\ cnt.connect = 0
    /\ outcome = Raised("GuestCountError", "NoWebsockets")

\* C17: when the connection cannot be established, or a frame does not
\* arrive in time or is no JSON, the session ends at once with
\* GuestCountError: no further frame is received and the invocation returns
\* no observation.
C17_FeedFaultEndsSession ==
    /\ [](/\ raw.k = "badjson" => pc \in {"wsScan", "wsExit", "finally", "done"}
          /\ pending.exc \in {"TimeoutError", "JSONDecodeError"} =>
                pc = "wsExit"
          /\ (pc \in {"finally", "done"} /\ cnt.connect = 1 /\ cnt.wsClose = 0) =>
                /\ pending = Raised("GuestCountError", "FeedError")
                /\ cnt.send = 0 /\ cnt.recv = 0
          /\ (pc = "done" /\ pending = Raised("GuestCountError", "FeedError")) =>
                outcome = pending /\ result = Nothing /\ ~wsOpen)
    /\ [][(pc = "wsExit" /\ pending.exc \in {"TimeoutError", "JSONDecodeError"})
              => /\ pc' = "finally"
                 /\ pending' = Raised("GuestCountError", "FeedError")
                 /\ (cnt'.recv = cnt.recv)]_vars
    /\ [][(pc \in {"finally", "done"}) => (cnt'.recv = cnt.recv)]_vars

C17_Witness ==
    /\ pc = "done"
    /\ raw.k = "badjson"
    /\ cnt.recv = 2
    /\ outcome = Raised("GuestCountError", "FeedError")

\* C18: a count of zero is a success on both paths: a page whose count is 0
\* gives an observation with count 0 and no fallback; a feed record whose
\* currentfill coerces to 0 ends the session with an observation of count 0
\* and no further frame is read.
C18_ZeroIsSuccess ==
    /\ (/\ cnt.parse = 1
        /\ CellHasCount(page) \/ PhraseHasCount(page)
        /\ PageCount(page) = 0) =>
          /\ parsed.k = "ok" /\ parsed.count = 0
          /\ cnt.recover = 0 /\ cnt.connect = 0
          /\ pc \in {"finally", "done"}
          /\ pc = "done" =>
                /\ outcome.k = "returned"
                /\ outcome.count = 0
                /\ outcome.via = "page"
    /\ (/\ pc = "wsDecide"
        /\ raw.k = "list"
        /\ Len(raw.items) >= 1
        /\ raw.items[1].uid = "target"
        /\ raw.items[1].fill = "i0") =>
          result # Nothing /\ result[1].count = 0
    /\ (result # Nothing /\ result[1].count = 0) =>
          /\ pc \in {"wsDecide", "wsExit", "finally", "done"}
          /\ pc # "wsDecide" =>
                pending = Returned(0, result[1].capacity, "feed")
          /\ pc = "done" => outcome = Returned(0, result[1].capacity, "feed")

C18_Witness ==
    /\ pc = "done"
    /\ cnt.recv = 2
    /\ result # Nothing
    /\ outcome.k = "returned"
    /\ outcome.count = 0
    /\ outcome.via = "feed"

\* C19: in every feed session the request frame is sent exactly once, on the
\* open connection and before the first receive, and never again between
\* the receives.
C19_RequestSentOnce ==
    /\ [](/\ cnt.send <= 1
          /\ cnt.send > 0 => cnt.connect = 1
          /\ cnt.recv > 0 => cnt.send = 1
          /\ pc \in {"wsRecv", "wsScan", "wsDecide"} => cnt.send = 1 /\ wsOpen)
    /\ [][cnt'.send # cnt.send =>
             (wsOpen /\ cnt.send = 0 /\ cnt.recv = 0 /\ cnt'.send = 1)]_vars

C19_Witness ==
    /\ pc = "done"
    /\ cnt.connect = 1
    /\ cnt.recv = 3
    /\ cnt.send = 1

\* C20 as stated: without a client from the caller the engine makes its own
\* and has closed it exactly once when the call completes, on every way
\* out; a client of the caller is never closed.
C20_OwnClientClosedOnce ==
    pc = "done" =>
        IF clientGiven
        THEN cnt.close = 0 /\ clientOpen
        ELSE cnt.close = 1 /\ ~clientOpen

\* C20 amended: a client the engine made (no client supplied, httpx
\* importable) is open while the invocation uses it and has been closed
\* exactly once when the call completes, on every way out; when httpx cannot
\* be imported no client is made and none is closed; a client of the caller
\* is never closed and is still open after the call.
C20_ClientOwnership ==
    /\ cnt.close <= 1
    /\ clientGiven => cnt.close = 0 /\ clientOpen
    /\ pc \in {"get", "awaitGet", "parse", "recover", "dump", "wsImport",
               "wsConnect", "wsSend", "wsRecv", "wsScan", "wsDecide",
               "wsExit", "finally"} => clientOpen /\ cnt.close = 0
    /\ (pc = "done" /\ ~clientGiven) =>
          /\ ~clientOpen
          /\ cnt.close = (IF httpxAvail THEN 1 ELSE 0)

C20_Witness ==
    /\ pc = "done"
    /\ ~clientGiven
    /\ cnt.close = 1
    /\ ~clientOpen
    /\ outcome.exc = "InvalidURL"

\* C12: the callers persist only on success: when the engine raises
\* GuestCountError nothing is added or committed (api_log answers 502, the
\* script exits with status 1); when it returns an observation exactly one
\* row with that observation's timestamp, count and capacity is appended to
\* the table and committed.
C12_PersistOnlyOnSuccess ==
    /\ SubSeq(store, 1, Len(PriorRows)) = PriorRows
    /\ outcome.k # "returned" => store = PriorRows /\ session = <<>>
    /\ (cPc = "done" /\ outcome.exc = "GuestCountError") =>
          reply = (IF caller = "api" THEN Status(502) ELSE ExitStatus(1))
    /\ (cPc = "done" /\ outcome.k = "returned") =>
          /\ store = Append(PriorRows, GuestLog(stamp, outcome.count,
                                               outcome.capacity))
          /\ session = <<>>
          /\ reply = (IF caller = "api" THEN Status(200) ELSE ExitStatus(0))

C12_Witness ==
    /\ cPc = "done"
    /\ caller = "api"
    /\ outcome.via = "feed"
    /\ Len(store) = 2
    /\ store[2] = GuestLog(2, 12, Some(120))
    /\ reply = Status(200)

\* C14: a peer that never answers cannot hold an invocation for ever: the
\* wait for the HTTP response and the wait for each feed frame are bounded
\* by a timeout, so each of them ends, with the engine's own client and with
\* a client of the caller alike.
C14_WaitsEnd ==
    /\ (pc = "awaitGet") ~> (pc # "awaitGet")
    /\ (pc = "wsRecv") ~> (pc # "wsRecv")

\* C13: concurrent invocations do not affect each other: however their
\* steps interleave at the awaits, the outcome of each is the outcome it
\* would have by itself on the page and the frames delivered to it, and a
\* finished invocation is not touched by the steps of another.
C13_OutcomeAsIfAlone ==
    /\ [][\A i \in InvIds :
             (inv[i].pc # "done" /\ inv'[i].pc = "done") =>
                 (inv'[i].outcome = SoloOutcome(inv'[i]))]_vars
    /\ [][\A i \in InvIds :
             (inv'[i] # inv[i]) =>
                 (\A j \in InvIds \ {i} : inv'[j] = inv[j])]_vars
    /\ [][\A i \in InvIds : (inv[i].pc = "done") => (inv'[i] = inv[i])]_vars

C13_Witness ==
    /\ inv[1].pc = "done"
    /\ inv[1].outcome = Raised("GuestCountError", "NotFound")
    /\ dumpFile # None
    /\ inv[2].pc = "done"
    /\ inv[2].outcome.k = "returned"
    /\ inv[2].outcome.via = "feed"
    /\ Len(inv[2].frames) = 2

=============================================================================
